---- MODULE Spec2Model ----
(***************************************************************************)
(* A model of lwc (src/src/lwc.rs): the stream counter of File::count and  *)
(* Stdin::count, the entry classifier of Dir::count, the accumulator Total  *)
(* and the traversal driver Counter::count_file / Counter::count_dir.       *)
(*                                                                          *)
(* Four specifications share the variables; each leaves the other parts    *)
(* idle:                                                                    *)
(*   SpecStream  the read loop over one byte stream                         *)
(*   SpecFold    Total::update_file / Total::update_dir over a list         *)
(*   SpecDir     Dir::count over one directory                              *)
(*   Spec        Counter::count_file / count_dir over a small filesystem    *)
(* The model is of the unix build (the #[cfg(unix)] arms of Dir::count).    *)
(***************************************************************************)
EXTENDS Integers, Sequences, FiniteSets, TLC

VARIABLES
    \* ---- stream counter (File::count / Stdin::count read loop)
    reader,     \* "File" | "Stdin": whose loop runs
    input,      \* the bytes of the stream
    rpos,       \* bytes the BufReader has consumed
    fstat,      \* the FileStat being built
    rstate,     \* "idle" | "reading", or why the loop ended: "eof" | "utf8" | "io"
    fres,       \* "pending" | "Ok": what count() returned
    \* ---- accumulator (Total)
    fshape,     \* "file" | "dir": the shape folded in this run
    flist,      \* the stats folded so far, in fold order
    ftotal,     \* the Total
    fprev,      \* the Total before the last fold
    \* ---- entry classifier (Dir::count)
    dtarget,    \* kind of the path handed to Dir::count
    children,   \* what read_dir yields, one kind per entry
    dpos,       \* entries consumed
    dstat,      \* the DirStat being built
    dres,       \* "idle" | "start" | "running" | "Ok" | "InvalidInput" | "Err"
    \* ---- traversal driver (Counter::count_file / count_dir)
    mode,       \* "file" (Counter::File) | "dir" (Counter::Dir)
    recursive,  \* args.rflag
    quiet,      \* args.tflag
    fs,         \* the filesystem: path -> kind
    entries,    \* args.entries
    pc,         \* "idle" | "start" | "run" | "done"
    root,       \* recursive mode: index in entries of the root being walked
    batch,      \* the paths of the current batch
    results,    \* the batch's results, "pending" until its task has run
    idx,        \* entries of the batch the result loop has consumed
    total,      \* the run's Total
    out,        \* what was printed, in order
    ret         \* "running" | "Ok" | "Err"

streamVars == <<reader, input, rpos, fstat, rstate, fres>>
foldVars == <<fshape, flist, ftotal, fprev>>
dirVars == <<dtarget, children, dpos, dstat, dres>>
drvVars == <<mode, recursive, quiet, fs, entries, pc, root, batch, results, idx, total, out, ret>>
vars == <<streamVars, foldVars, dirVars, drvVars>>

(***************************************************************************)
(* Bounds                                                                  *)
(***************************************************************************)
MaxLen == 4
MaxFold == 3
MaxChildren == 4
MaxEntries == 3

(***************************************************************************)
(* Records                                                                 *)
(***************************************************************************)
FileStatDefault == [lines |-> 0, words |-> 0, chars |-> 0, bytes |-> 0]

DirFields == {"subdirs", "files", "symlinks", "blocks", "chars", "fifos", "sockets", "symlink_files", "symlink_dirs"}

DirStatDefault == [f \in DirFields |-> 0]

TotalNew == [file |-> FileStatDefault, dir |-> DirStatDefault, done |-> 0]

(***************************************************************************)
(* Stream counter                                                          *)
(***************************************************************************)
NL == 10

\* The bytes streams are drawn from: "\n", " ", "a", and 0xC2, 0xA0, 0xA9, which
\* give U+00A0 (C2 A0, white space), U+00A9 (C2 A9) and, in any other
\* arrangement, invalid UTF-8.
Bytes == {10, 32, 97, 194, 160, 169}

HelloWorld == <<104, 101, 108, 108, 111, 32, 119, 111, 114, 108, 100>>

ANewlineBNewline == <<97, 10, 98, 10>>

RECURSIVE SeqsUpTo(_, _)
SeqsUpTo(S, n) ==
    IF n = 0 THEN {<<>>}
    ELSE LET shorter == SeqsUpTo(S, n - 1)
         IN shorter \cup {Append(s, x) : s \in {t \in shorter : Len(t) = n - 1}, x \in S}

Streams == SeqsUpTo(Bytes, MaxLen) \cup {HelloWorld, ANewlineBNewline}

IsCont(b) == b >= 128 /\ b <= 191

At(bs, i) == IF i <= Len(bs) THEN bs[i] ELSE -1

\* The width of the well-formed UTF-8 sequence that starts at bs[i], 0 when
\* there is none (core::str::from_utf8's validation).
Width(bs, i) ==
    LET b == bs[i]
        c1 == At(bs, i + 1)
        c2 == At(bs, i + 2)
        c3 == At(bs, i + 3)
    IN  IF b < 128 THEN 1
        ELSE IF b >= 194 /\ b <= 223 THEN (IF IsCont(c1) THEN 2 ELSE 0)
        ELSE IF b >= 224 /\ b <= 239
             THEN (IF /\ IsCont(c1)
                      /\ IsCont(c2)
                      /\ (b = 224 => c1 >= 160)
                      /\ (b = 237 => c1 <= 159)
                   THEN 3 ELSE 0)
        ELSE IF b >= 240 /\ b <= 244
             THEN (IF /\ IsCont(c1)
                      /\ IsCont(c2)
                      /\ IsCont(c3)
                      /\ (b = 240 => c1 >= 144)
                      /\ (b = 244 => c1 <= 143)
                   THEN 4 ELSE 0)
        ELSE 0

CodePoint(bs, i, w) ==
    IF w = 1 THEN bs[i]
    ELSE IF w = 2 THEN (bs[i] - 192) * 64 + (bs[i + 1] - 128)
    ELSE IF w = 3 THEN (bs[i] - 224) * 4096 + (bs[i + 1] - 128) * 64 + (bs[i + 2] - 128)
    ELSE (bs[i] - 240) * 262144 + (bs[i + 1] - 128) * 4096 + (bs[i + 2] - 128) * 64 + (bs[i + 3] - 128)

\* The scalar values of bs, and whether all of bs is well-formed UTF-8.
RECURSIVE DecodeFrom(_, _, _)
DecodeFrom(bs, i, acc) ==
    IF i > Len(bs) THEN [ok |-> TRUE, cps |-> acc]
    ELSE LET w == Width(bs, i)
         IN  IF w = 0 THEN [ok |-> FALSE, cps |-> acc]
             ELSE DecodeFrom(bs, i + w, Append(acc, CodePoint(bs, i, w)))

Decode(bs) == DecodeFrom(bs, 1, <<>>)

\* char::is_whitespace: the Unicode White_Space property.
IsWhitespace(cp) ==
    \/ cp >= 9 /\ cp <= 13
    \/ cp \in {32, 133, 160, 5760, 8232, 8233, 8239, 8287, 12288}
    \/ cp >= 8192 /\ cp <= 8202

\* str::split_whitespace().count(): the maximal runs of non-white-space.
SplitWhitespaceCount(cps) ==
    Cardinality({i \in 1..Len(cps) :
        /\ ~IsWhitespace(cps[i])
        /\ (i = 1 \/ IsWhitespace(cps[i - 1]))})

\* The index of the last byte read_until(b'\n') takes from position pos on:
\* the first newline after pos, or the end of the stream.
RECURSIVE LineEnd(_, _)
LineEnd(bs, i) ==
    IF i >= Len(bs) THEN Len(bs)
    ELSE IF bs[i] = NL THEN i
    ELSE LineEnd(bs, i + 1)

\* BufRead::read_line at position pos (without an I/O failure): the bytes up
\* to and including the next newline are consumed; Ok(len) with them appended
\* to the cleared line when they are UTF-8, Err otherwise.
ReadLine(bs, pos) ==
    LET last == IF pos >= Len(bs) THEN pos ELSE LineEnd(bs, pos + 1)
        chunk == SubSeq(bs, pos + 1, last)
        dec == Decode(chunk)
    IN  [ok |-> dec.ok, len |-> last - pos, line |-> dec.cps]

CountLine_SkipUnterminated(stat, len, line) ==
    IF Len(line) > 0 /\ line[Len(line)] = NL
    THEN [lines |-> stat.lines + 1,
          words |-> stat.words + SplitWhitespaceCount(line),
          chars |-> stat.chars + Len(line),
          bytes |-> stat.bytes + len]
    ELSE stat

\* The loop body: one line scored into the stat.
CountLine(stat, len, line) ==
    [lines |-> stat.lines + 1,
     words |-> stat.words + SplitWhitespaceCount(line),
     chars |-> stat.chars + Len(line),
     bytes |-> stat.bytes + len]

\* One turn of `while let Ok(len) = reader.read_line(&mut line)`.
ReadLoopStep ==
    /\ rstate = "reading"
    /\ LET r == ReadLine(input, rpos)
       IN  \/ /\ r.ok /\ r.len > 0
              /\ fstat' = CountLine(fstat, r.len, r.line)
              /\ rpos' = rpos + r.len
              /\ UNCHANGED <<rstate, fres>>
           \/ /\ r.ok /\ r.len = 0
              /\ rstate' = "eof"
              /\ fres' = "Ok"
              /\ UNCHANGED <<fstat, rpos>>
           \/ /\ ~r.ok
              /\ rstate' = "utf8"
              /\ rpos' = rpos + r.len
              /\ fres' = "Ok"
              /\ UNCHANGED fstat
           \/ /\ rstate' = "io"
              /\ fres' = "Ok"
              /\ UNCHANGED <<fstat, rpos>>
    /\ UNCHANGED <<reader, input>>

FileCountRead ==
    /\ reader = "File"
    /\ ReadLoopStep
    /\ UNCHANGED <<foldVars, dirVars, drvVars>>

StdinCountRead ==
    /\ reader = "Stdin"
    /\ ReadLoopStep
    /\ UNCHANGED <<foldVars, dirVars, drvVars>>

\* The whole loop on a stream that reads without an I/O failure.
RECURSIVE CountStream(_, _, _)
CountStream(bs, pos, stat) ==
    LET r == ReadLine(bs, pos)
    IN  IF ~r.ok \/ r.len = 0 THEN stat
        ELSE CountStream(bs, pos + r.len, CountLine(stat, r.len, r.line))

(***************************************************************************)
(* Fixture of the driver: the paths of a small tree and the content of     *)
(* each path when it is a regular file.                                    *)
(*      1            a root given on the command line                      *)
(*      |- 2         child of 1                                            *)
(*      |- 3         child of 1                                            *)
(*         |- 4      child of 3                                            *)
(***************************************************************************)
Paths == {1, 2, 3, 4}

Parent == <<0, 1, 1, 3>>

FileContent == <<
    <<97, 10>>,
    <<97, 32, 97>>,
    <<194, 169, 10, 97, 10>>,
    <<>> >>

(***************************************************************************)
(* Accumulator                                                             *)
(***************************************************************************)
update_file_Overwrite(t, s) ==
    [t EXCEPT !.file = [lines |-> s.lines,
                        words |-> @.words + s.words,
                        chars |-> @.chars + s.chars,
                        bytes |-> @.bytes + s.bytes],
              !.done = @ + 1]

\* Total::update_file
update_file(t, s) ==
    [t EXCEPT !.file = [lines |-> @.lines + s.lines,
                        words |-> @.words + s.words,
                        chars |-> @.chars + s.chars,
                        bytes |-> @.bytes + s.bytes],
              !.done = @ + 1]

update_dir_DoneNotCounted(t, d) ==
    [t EXCEPT !.dir = [@ EXCEPT !.subdirs = @ + d.subdirs,
                                !.files = @ + d.files,
                                !.symlinks = @ + d.symlinks,
                                !.blocks = @ + d.blocks,
                                !.chars = @ + d.chars,
                                !.fifos = @ + d.fifos,
                                !.sockets = @ + d.sockets]]

\* Total::update_dir: symlink_files and symlink_dirs are not among the fields
\* it adds.
update_dir(t, d) ==
    [t EXCEPT !.dir = [@ EXCEPT !.subdirs = @ + d.subdirs,
                                !.files = @ + d.files,
                                !.symlinks = @ + d.symlinks,
                                !.blocks = @ + d.blocks,
                                !.chars = @ + d.chars,
                                !.fifos = @ + d.fifos,
                                !.sockets = @ + d.sockets],
              !.done = @ + 1]

\* The stats folded: those of the fixture's files, and the DirStats of the
\* empty directory and of the directories with one entry.
FileStatSamples == {CountStream(FileContent[p], 0, FileStatDefault) : p \in Paths}

DirStatSamples == {DirStatDefault} \cup {[DirStatDefault EXCEPT ![f] = 1] : f \in DirFields}

FoldFile(s) ==
    /\ fshape = "file"
    /\ Len(flist) < MaxFold
    /\ fprev' = ftotal
    /\ ftotal' = update_file(ftotal, s)
    /\ flist' = Append(flist, s)
    /\ UNCHANGED <<fshape, streamVars, dirVars, drvVars>>

FoldDir(d) ==
    /\ fshape = "dir"
    /\ Len(flist) < MaxFold
    /\ fprev' = ftotal
    /\ ftotal' = update_dir(ftotal, d)
    /\ flist' = Append(flist, d)
    /\ UNCHANGED <<fshape, streamVars, dirVars, drvVars>>

\* A list of stats of one shape folded, in its order, into a fresh Total.
RECURSIVE FoldList(_, _, _)
FoldList(shape, list, t) ==
    IF list = <<>> THEN t
    ELSE FoldList(shape, Tail(list),
                  IF shape = "file" THEN update_file(t, Head(list))
                  ELSE update_dir(t, Head(list)))

Permuted(list, p) == [i \in 1..Len(list) |-> list[p[i]]]

(***************************************************************************)
(* Entry classifier                                                        *)
(***************************************************************************)
\* What a directory entry can be. "vanished" is an entry whose
\* symlink_metadata() fails, "enumerr" one that read_dir yields as Err.
ChildKinds == {"dir", "file", "symfile", "symdir", "symbroken", "block", "char", "fifo", "socket", "vanished", "enumerr"}

ExampleDir == <<"dir", "file", "file", "symfile">>

ChildLists == SeqsUpTo(ChildKinds, MaxChildren) \cup {ExampleDir}

\* Path::symlink_metadata().file_type(): the type of the entry itself, a
\* symlink's target not looked at; "err" when it cannot be read.
SymlinkMetadata(k) ==
    IF k \in {"vanished", "enumerr", "missing"} THEN "err"
    ELSE IF k \in {"symfile", "symdir", "symbroken"} THEN "symlink"
    ELSE IF k = "lockedfile" THEN "file"
    ELSE IF k = "lockeddir" THEN "dir"
    ELSE k

Classify_NoFifoArm(stat, ft) ==
    IF ft = "dir" THEN [stat EXCEPT !.subdirs = @ + 1]
    ELSE IF ft = "file" THEN [stat EXCEPT !.files = @ + 1]
    ELSE IF ft = "symlink" THEN [stat EXCEPT !.symlinks = @ + 1]
    ELSE IF ft = "block" THEN [stat EXCEPT !.blocks = @ + 1]
    ELSE IF ft = "char" THEN [stat EXCEPT !.chars = @ + 1]
    ELSE IF ft = "socket" THEN [stat EXCEPT !.sockets = @ + 1]
    ELSE stat

\* The match on metadata.file_type(), unix arms.
Classify(stat, ft) ==
    IF ft = "dir" THEN [stat EXCEPT !.subdirs = @ + 1]
    ELSE IF ft = "file" THEN [stat EXCEPT !.files = @ + 1]
    ELSE IF ft = "symlink" THEN [stat EXCEPT !.symlinks = @ + 1]
    ELSE IF ft = "block" THEN [stat EXCEPT !.blocks = @ + 1]
    ELSE IF ft = "char" THEN [stat EXCEPT !.chars = @ + 1]
    ELSE IF ft = "fifo" THEN [stat EXCEPT !.fifos = @ + 1]
    ELSE IF ft = "socket" THEN [stat EXCEPT !.sockets = @ + 1]
    ELSE stat

\* Dir::count up to the loop: the metadata check and read_dir.
DirCountOpen ==
    /\ dres = "start"
    /\ dres' = IF dtarget = "missing" THEN "Err"
               ELSE IF dtarget # "dir" /\ dtarget # "lockeddir" THEN "InvalidInput"
               ELSE IF dtarget = "lockeddir" THEN "Err"
               ELSE "running"
    /\ UNCHANGED <<dtarget, children, dpos, dstat>>
    /\ UNCHANGED <<streamVars, foldVars, drvVars>>

\* One entry of `for entry in entries.flatten()`.
DirCountEntry ==
    /\ dres = "running"
    /\ dpos < Len(children)
    /\ LET k == children[dpos + 1]
       IN  IF k = "enumerr"
           THEN UNCHANGED <<dstat, dres>>
           ELSE IF SymlinkMetadata(k) = "err"
           THEN dres' = "Err" /\ UNCHANGED dstat
           ELSE dstat' = Classify(dstat, SymlinkMetadata(k)) /\ UNCHANGED dres
    /\ dpos' = dpos + 1
    /\ UNCHANGED <<dtarget, children>>
    /\ UNCHANGED <<streamVars, foldVars, drvVars>>

DirCountReturn ==
    /\ dres = "running"
    /\ dpos = Len(children)
    /\ dres' = "Ok"
    /\ UNCHANGED <<dtarget, children, dpos, dstat>>
    /\ UNCHANGED <<streamVars, foldVars, drvVars>>

\* The loop of Dir::count over a whole list of entries.
RECURSIVE ClassifyAll(_, _)
ClassifyAll(list, stat) ==
    IF list = <<>> THEN [res |-> "Ok", stat |-> stat]
    ELSE IF Head(list) = "enumerr" THEN ClassifyAll(Tail(list), stat)
    ELSE IF SymlinkMetadata(Head(list)) = "err" THEN [res |-> "Err", stat |-> stat]
    ELSE ClassifyAll(Tail(list), Classify(stat, SymlinkMetadata(Head(list))))

(***************************************************************************)
(* The older entry classifier, Counter::dcount (src/src/counter.rs).  It   *)
(* runs on the variables of Dir::count; dres ends "None" or "Some".        *)
(***************************************************************************)
DcountFields == {"subdirs", "files", "symlinks", "blocks", "chars", "fifos", "sockets"}

DcountStatInit == [f \in DcountFields |-> 0]

\* Path::metadata().file_type(): a symlink is followed, so the type is that
\* of its target, and "err" when the target is missing.
Metadata(k) ==
    IF k \in {"vanished", "enumerr", "missing", "symbroken"} THEN "err"
    ELSE IF k \in {"symfile", "lockedfile"} THEN "file"
    ELSE IF k \in {"symdir", "lockeddir"} THEN "dir"
    ELSE k

\* The match on metadata.file_type() in dcount.
DcountClassify(stat, ft) ==
    IF ft = "dir" THEN [stat EXCEPT !.subdirs = @ + 1]
    ELSE IF ft = "file" THEN [stat EXCEPT !.files = @ + 1]
    ELSE IF ft = "symlink" THEN [stat EXCEPT !.symlinks = @ + 1]
    ELSE IF ft = "block" THEN [stat EXCEPT !.blocks = @ + 1]
    ELSE IF ft = "char" THEN [stat EXCEPT !.chars = @ + 1]
    ELSE IF ft = "fifo" THEN [stat EXCEPT !.fifos = @ + 1]
    ELSE IF ft = "socket" THEN [stat EXCEPT !.sockets = @ + 1]
    ELSE stat

\* dcount up to the loop: the is_dir check, then read_dir, whose failure
\* only skips the loop.
DcountOpen ==
    /\ dres = "start"
    /\ dres' = IF dtarget = "missing" THEN "None"
               ELSE IF dtarget # "dir" /\ dtarget # "lockeddir" THEN "None"
               ELSE IF dtarget = "lockeddir" THEN "Some"
               ELSE "running"
    /\ UNCHANGED <<dtarget, children, dpos, dstat>>
    /\ UNCHANGED <<streamVars, foldVars, drvVars>>

\* One entry of `for entry in dir_entries.flatten()`.
DcountEntry ==
    /\ dres = "running"
    /\ dpos < Len(children)
    /\ LET k == children[dpos + 1]
       IN  IF k = "enumerr"
           THEN UNCHANGED <<dstat, dres>>
           ELSE IF Metadata(k) = "err"
           THEN dres' = "None" /\ UNCHANGED dstat
           ELSE dstat' = DcountClassify(dstat, Metadata(k)) /\ UNCHANGED dres
    /\ dpos' = dpos + 1
    /\ UNCHANGED <<dtarget, children>>
    /\ UNCHANGED <<streamVars, foldVars, drvVars>>

DcountReturn ==
    /\ dres = "running"
    /\ dpos = Len(children)
    /\ dres' = "Some"
    /\ UNCHANGED <<dtarget, children, dpos, dstat>>
    /\ UNCHANGED <<streamVars, foldVars, drvVars>>

(***************************************************************************)
(* Traversal driver                                                        *)
(***************************************************************************)
\* What a path can be: a readable regular file, a readable directory, a path
\* whose metadata() fails (it does not exist, or lies under a directory that
\* cannot be searched), a regular file that cannot be opened, a directory
\* that cannot be read, a symlink to a readable regular file.
Kinds == {"file", "dir", "missing", "lockedfile", "lockeddir", "symfile"}

\* Path::is_file() and Path::is_dir(): metadata(), which follows symlinks.
IsFile(k) == k \in {"file", "lockedfile", "symfile"}

IsDir(k) == k \in {"dir", "lockeddir"}

\* The filesystems of the fixture: only a readable directory shows entries.
FileSystems ==
    {f \in [Paths -> Kinds] :
        \A p \in Paths : (Parent[p] # 0 /\ f[Parent[p]] # "dir") => f[p] = "missing"}

\* The entries of directory p, in the order read_dir yields them.
RECURSIVE EntriesFrom(_, _, _)
EntriesFrom(f, p, q) ==
    IF q > Len(Parent) THEN <<>>
    ELSE (IF Parent[q] = p /\ f[q] # "missing" THEN <<q>> ELSE <<>>) \o EntriesFrom(f, p, q + 1)

ReadDir(f, p) == EntriesFrom(f, p, 1)

Pending == [res |-> "pending", path |-> 0, stat |-> FileStatDefault]

\* File::count(path)
FileCount(f, p) ==
    IF f[p] = "missing" THEN [res |-> "Err", path |-> p, stat |-> FileStatDefault]
    ELSE IF ~IsFile(f[p]) THEN [res |-> "InvalidInput", path |-> p, stat |-> FileStatDefault]
    ELSE IF f[p] = "lockedfile" THEN [res |-> "Err", path |-> p, stat |-> FileStatDefault]
    ELSE [res |-> "Ok", path |-> p, stat |-> CountStream(FileContent[p], 0, FileStatDefault)]

\* Dir::count(path)
DirCount(f, p) ==
    IF f[p] = "missing" THEN [res |-> "Err", path |-> p, stat |-> DirStatDefault]
    ELSE IF ~IsDir(f[p]) THEN [res |-> "InvalidInput", path |-> p, stat |-> DirStatDefault]
    ELSE IF f[p] = "lockeddir" THEN [res |-> "Err", path |-> p, stat |-> DirStatDefault]
    ELSE LET ents == ReadDir(f, p)
             r == ClassifyAll([i \in 1..Len(ents) |-> f[ents[i]]], DirStatDefault)
         IN [res |-> r.res, path |-> p, stat |-> r.stat]

Walk_RootAndEntries(f, p) ==
    IF f[p] = "missing" THEN <<>>
    ELSE IF f[p] = "dir" THEN <<p>> \o ReadDir(f, p)
    ELSE <<p>>

\* WalkDir::new(p).into_iter().filter_map(|e| e.ok()): the root, then, depth
\* first, what lies below it; symlinks are not descended into, and what
\* cannot be read (a missing root, the entries of an unreadable directory)
\* is an Err that the filter drops.
RECURSIVE Walk(_, _)
RECURSIVE WalkEach(_, _)
Walk(f, p) ==
    IF f[p] = "missing" THEN <<>>
    ELSE IF f[p] = "dir" THEN <<p>> \o WalkEach(f, ReadDir(f, p))
    ELSE <<p>>

WalkEach(f, list) ==
    IF list = <<>> THEN <<>>
    ELSE Walk(f, Head(list)) \o WalkEach(f, Tail(list))

\* .filter(|e| e.path().is_file()) in count_file, is_dir() in count_dir.
RECURSIVE FilterKind(_, _, _)
FilterKind(f, m, list) ==
    IF list = <<>> THEN <<>>
    ELSE LET k == f[Head(list)]
         IN (IF (m = "file" /\ IsFile(k)) \/ (m = "dir" /\ IsDir(k)) THEN <<Head(list)>> ELSE <<>>)
            \o FilterKind(f, m, Tail(list))

Disposition_InvalidInputFatal(r) ==
    IF r.res = "Ok" THEN "fold" ELSE "abort"

\* The arms of `match stat` in the result loops.
Disposition(r) ==
    IF r.res = "Ok" THEN "fold"
    ELSE IF r.res = "InvalidInput" THEN "warn"
    ELSE "abort"

ShouldPrintTotal_AtLeastOne(done, q) == done >= 1

\* total.done() > 1 || (quiet && total.done() > 1)
ShouldPrintTotal(done, q) == done > 1 \/ (q /\ done > 1)

Report(r) == [ev |-> "report", path |-> r.path, stat |-> r.stat]

Warn(r) == [ev |-> "warn", path |-> r.path, stat |-> r.stat]

TotalLine(t) == [ev |-> "total", path |-> 0, stat |-> IF mode = "file" THEN t.file ELSE t.dir]

NonePending == \A i \in 1..Len(results) : results[i].res # "pending"

\* Flat mode: the batch is the list of entries as given.
Collect ==
    /\ pc = "start"
    /\ ~recursive
    /\ batch' = entries
    /\ results' = [i \in 1..Len(entries) |-> Pending]
    /\ idx' = 0
    /\ pc' = "run"
    /\ UNCHANGED <<mode, recursive, quiet, fs, entries, root, total, out, ret>>
    /\ UNCHANGED <<streamVars, foldVars, dirVars>>

\* Recursive mode: the next entry is walked; its batch is what the walk
\* yields of the mode's type.
WalkRoot ==
    /\ recursive
    /\ pc = "start" \/ (pc = "run" /\ NonePending /\ idx = Len(batch))
    /\ root < Len(entries)
    /\ root' = root + 1
    /\ LET b == FilterKind(fs, mode, Walk(fs, entries[root + 1]))
       IN  /\ batch' = b
           /\ results' = [i \in 1..Len(b) |-> Pending]
    /\ idx' = 0
    /\ pc' = "run"
    /\ UNCHANGED <<mode, recursive, quiet, fs, entries, total, out, ret>>
    /\ UNCHANGED <<streamVars, foldVars, dirVars>>

Task_ReportsOnCompletion(i) ==
    /\ pc = "run"
    /\ results[i].res = "pending"
    /\ LET r == IF mode = "file" THEN FileCount(fs, batch[i]) ELSE DirCount(fs, batch[i])
       IN  /\ results' = [results EXCEPT ![i] = r]
           /\ out' = IF r.res = "Ok" /\ ~quiet THEN Append(out, Report(r)) ELSE out
    /\ UNCHANGED <<mode, recursive, quiet, fs, entries, pc, root, batch, idx, total, ret>>
    /\ UNCHANGED <<streamVars, foldVars, dirVars>>

\* One task of par_iter().map(File::count) or .map(Dir::count) completes; the
\* collected vector keeps the batch's order.
Task(i) ==
    /\ pc = "run"
    /\ results[i].res = "pending"
    /\ results' = [results EXCEPT ![i] = IF mode = "file" THEN FileCount(fs, batch[i])
                                         ELSE DirCount(fs, batch[i])]
    /\ UNCHANGED <<mode, recursive, quiet, fs, entries, pc, root, batch, idx, total, out, ret>>
    /\ UNCHANGED <<streamVars, foldVars, dirVars>>

\* One turn of `for stat in stats`, entered once collect() has every result.
Consume ==
    /\ pc = "run"
    /\ NonePending
    /\ idx < Len(batch)
    /\ LET r == results[idx + 1]
           d == Disposition(r)
       IN  \/ /\ d = "fold"
              /\ total' = IF mode = "file" THEN update_file(total, r.stat)
                          ELSE update_dir(total, r.stat)
              /\ out' = IF quiet THEN out ELSE Append(out, Report(r))
              /\ idx' = idx + 1
              /\ UNCHANGED <<pc, ret>>
           \/ /\ d = "warn"
              /\ out' = Append(out, Warn(r))
              /\ idx' = idx + 1
              /\ UNCHANGED <<pc, ret, total>>
           \/ /\ d = "abort"
              /\ ret' = "Err"
              /\ pc' = "done"
              /\ UNCHANGED <<idx, total, out>>
    /\ UNCHANGED <<mode, recursive, quiet, fs, entries, root, batch, results>>
    /\ UNCHANGED <<streamVars, foldVars, dirVars>>

\* After the loops: the total line, then Ok(()).
Finish ==
    /\ pc = "run"
    /\ NonePending
    /\ idx = Len(batch)
    /\ recursive => root = Len(entries)
    /\ out' = IF ShouldPrintTotal(total.done, quiet) THEN Append(out, TotalLine(total)) ELSE out
    /\ ret' = "Ok"
    /\ pc' = "done"
    /\ UNCHANGED <<mode, recursive, quiet, fs, entries, root, batch, results, idx, total>>
    /\ UNCHANGED <<streamVars, foldVars, dirVars>>

(***************************************************************************)
(* The parts at rest                                                       *)
(***************************************************************************)
IdleStream ==
    /\ reader = "File"
    /\ input = <<>>
    /\ rpos = 0
    /\ fstat = FileStatDefault
    /\ rstate = "idle"
    /\ fres = "pending"

IdleFold ==
    /\ fshape = "file"
    /\ flist = <<>>
    /\ ftotal = TotalNew
    /\ fprev = TotalNew

IdleDir ==
    /\ dtarget = "dir"
    /\ children = <<>>
    /\ dpos = 0
    /\ dstat = DirStatDefault
    /\ dres = "idle"

IdleDrv ==
    /\ mode = "file"
    /\ recursive = FALSE
    /\ quiet = FALSE
    /\ fs = [p \in Paths |-> "missing"]
    /\ entries = <<>>
    /\ pc = "idle"
    /\ root = 0
    /\ batch = <<>>
    /\ results = <<>>
    /\ idx = 0
    /\ total = TotalNew
    /\ out = <<>>
    /\ ret = "running"

(***************************************************************************)
(* SpecStream: File::count or Stdin::count reading one stream              *)
(***************************************************************************)
InitStream ==
    /\ reader \in {"File", "Stdin"}
    /\ input \in Streams
    /\ rpos = 0
    /\ fstat = FileStatDefault
    /\ rstate = "reading"
    /\ fres = "pending"
    /\ IdleFold /\ IdleDir /\ IdleDrv

NextStream == FileCountRead \/ StdinCountRead

SpecStream == InitStream /\ [][NextStream]_vars

(***************************************************************************)
(* SpecFold: stats of one shape folded into a fresh Total                  *)
(***************************************************************************)
InitFold ==
    /\ fshape \in {"file", "dir"}
    /\ flist = <<>>
    /\ ftotal = TotalNew
    /\ fprev = TotalNew
    /\ IdleStream /\ IdleDir /\ IdleDrv

NextFold ==
    \/ \E s \in FileStatSamples : FoldFile(s)
    \/ \E d \in DirStatSamples : FoldDir(d)

SpecFold == InitFold /\ [][NextFold]_vars

(***************************************************************************)
(* Claims on the stream counter                                            *)
(***************************************************************************)
Returned == fres = "Ok"

Count(bs, b) == Cardinality({i \in 1..Len(bs) : bs[i] = b})

\* C1: for every byte stream, also one that is not UTF-8, the FileStat that
\* count() returns has bytes equal to the length of the stream (streams whose
\* read met an I/O failure left aside: they were not delivered whole).
C1_BytesEqualLength ==
    (Returned /\ rstate # "io") => fstat.bytes = Len(input)

\* C2: for every valid UTF-8 input that was read to its end, lines is the
\* number of newline bytes plus one for an unterminated last segment, and
\* bytes, chars and words are those of the whole input; the empty input gives
\* all zeros, "hello world" 1/2/11/11 and "a\nb\n" 2/2/4/4.
C2_ValidInputCounts ==
    (Returned /\ rstate # "io" /\ Decode(input).ok) =>
        /\ rstate = "eof"
        /\ fstat.lines = Count(input, NL)
                         + (IF input # <<>> /\ input[Len(input)] # NL THEN 1 ELSE 0)
        /\ fstat.bytes = Len(input)
        /\ fstat.chars = Len(Decode(input).cps)
        /\ fstat.words = SplitWhitespaceCount(Decode(input).cps)
        /\ (input = <<>> => fstat = FileStatDefault)
        /\ (input = HelloWorld =>
                fstat = [lines |-> 1, words |-> 2, chars |-> 11, bytes |-> 11])
        /\ (input = ANewlineBNewline =>
                fstat = [lines |-> 2, words |-> 2, chars |-> 4, bytes |-> 4])

\* A valid input with a two-byte scalar value, a newline inside and an
\* unterminated last segment has been counted to its end.
C2_Witness ==
    /\ Returned
    /\ rstate = "eof"
    /\ input = <<194, 169, 10, 97>>
    /\ fstat = [lines |-> 2, words |-> 2, chars |-> 3, bytes |-> 4]

\* C13: a read that fails partway, by an I/O error or on a line that is not
\* UTF-8, is not swallowed: count() then returns an error, never Ok with the
\* counts gathered before the failure.
C13_ReadErrorReturned ==
    (fres # "pending" /\ rstate \in {"io", "utf8"}) => fres = "Err"

(***************************************************************************)
(* Claims on the accumulator                                               *)
(***************************************************************************)
\* C3: folding is order independent: every permutation of the folded list,
\* folded into a fresh Total, gives the Total the fold produced, done included.
C3_FoldOrderIndependent ==
    \A p \in Permutations(1..Len(flist)) :
        FoldList(fshape, Permuted(flist, p), TotalNew) = ftotal

\* Three different stats have been folded.
C3_Witness ==
    /\ Len(flist) = 3
    /\ Cardinality({flist[i] : i \in 1..3}) = 3
    /\ ftotal.done = 3
    /\ ftotal # TotalNew

InitDir ==
    /\ dtarget \in {"dir", "file", "missing", "lockeddir"}
    /\ children \in IF dtarget = "dir" THEN ChildLists ELSE {<<>>}
    /\ dpos = 0
    /\ dstat = DirStatDefault
    /\ dres = "start"
    /\ IdleStream /\ IdleFold /\ IdleDrv

NextDir == DirCountOpen \/ DirCountEntry \/ DirCountReturn

SpecDir == InitDir /\ [][NextDir]_vars

(***************************************************************************)
(* Claims on the entry classifier                                          *)
(***************************************************************************)
RECURSIVE SumOver(_, _)
SumOver(stat, fields) ==
    IF fields = {} THEN 0
    ELSE LET f == CHOOSE g \in fields : TRUE
         IN stat[f] + SumOver(stat, fields \ {f})

BucketSum(stat) == SumOver(stat, DirFields)

Resolved(list, n) == {i \in 1..n : SymlinkMetadata(list[i]) # "err"}

\* C9: while Dir::count runs and when it succeeds, the buckets sum to the
\* number of entries consumed whose type could be resolved, so each of them
\* added one to exactly one bucket; one subdirectory, two regular files and
\* one symlink give subdirs 1, files 2, symlinks 1 and 0 elsewhere.
C9_BucketsSumToResolved ==
    (dres \in {"running", "Ok"}) =>
        /\ BucketSum(dstat) = Cardinality(Resolved(children, dpos))
        /\ (dres = "Ok" /\ children = ExampleDir =>
                dstat = [DirStatDefault EXCEPT !.subdirs = 1, !.files = 2, !.symlinks = 1])

\* Dir::count succeeded on a directory with a fifo, a socket and an entry
\* read_dir could not yield.
C9_Witness ==
    /\ dres = "Ok"
    /\ children = <<"fifo", "enumerr", "socket">>
    /\ dstat = [DirStatDefault EXCEPT !.fifos = 1, !.sockets = 1]

\* What a finished classifier call gave: Dir::count's Ok or dcount's Some.
Finished == dres \in {"Ok", "InvalidInput", "Err", "Some", "None"}

Succeeded == dres \in {"Ok", "Some"}

\* The entries of the directory whose own type (the link's, not its
\* target's) is one of `types`; entries that cannot be resolved have none.
OfType(types) ==
    {i \in 1..Len(children) :
        /\ children[i] \notin {"vanished", "enumerr"}
        /\ (IF children[i] \in {"symfile", "symdir", "symbroken"} THEN "symlink"
            ELSE children[i]) \in types}

\* C11: a child whose metadata cannot be resolved is skipped: on a directory
\* the classifier succeeds, and its stat counts every other child, each in
\* the bucket of its type.
C11_UnresolvableChildSkipped ==
    (dtarget = "dir" /\ Finished) =>
        /\ Succeeded
        /\ dstat.subdirs = Cardinality(OfType({"dir"}))
        /\ dstat.files = Cardinality(OfType({"file"}))
        /\ dstat.symlinks = Cardinality(OfType({"symlink"}))
        /\ dstat.blocks = Cardinality(OfType({"block"}))
        /\ dstat.chars = Cardinality(OfType({"char"}))
        /\ dstat.fifos = Cardinality(OfType({"fifo"}))
        /\ dstat.sockets = Cardinality(OfType({"socket"}))

\* C12: symlinks are not followed: when the classifier succeeds, every
\* child that is a symlink (to a file, to a directory, or dangling) is in the
\* symlinks bucket and in no other, so files and subdirs hold only the
\* children that are themselves regular files and directories.
C12_SymlinksNotFollowed ==
    (dtarget = "dir" /\ Finished) =>
        /\ (\A i \in 1..Len(children) : children[i] \notin {"vanished", "enumerr"}) => Succeeded
        /\ Succeeded =>
              /\ dstat.symlinks = Cardinality(OfType({"symlink"}))
              /\ dstat.files = Cardinality(OfType({"file"}))
              /\ dstat.subdirs = Cardinality(OfType({"dir"}))

(***************************************************************************)
(* SpecDcount: Counter::dcount on one directory                            *)
(***************************************************************************)
InitDcount ==
    /\ dtarget \in {"dir", "file", "missing", "lockeddir"}
    /\ children \in IF dtarget = "dir" THEN ChildLists ELSE {<<>>}
    /\ dpos = 0
    /\ dstat = DcountStatInit
    /\ dres = "start"
    /\ IdleStream /\ IdleFold /\ IdleDrv

NextDcount == DcountOpen \/ DcountEntry \/ DcountReturn

SpecDcount == InitDcount /\ [][NextDcount]_vars

(***************************************************************************)
(* Spec: one run of Counter::count_file or Counter::count_dir              *)
(***************************************************************************)
EntryLists == SeqsUpTo(Paths, MaxEntries) \ {<<>>}

Init ==
    /\ mode \in {"file", "dir"}
    /\ recursive \in BOOLEAN
    /\ quiet \in BOOLEAN
    /\ fs \in FileSystems
    /\ entries \in EntryLists
    /\ pc = "start"
    /\ root = 0
    /\ batch = <<>>
    /\ results = <<>>
    /\ idx = 0
    /\ total = TotalNew
    /\ out = <<>>
    /\ ret = "running"
    /\ IdleStream /\ IdleFold /\ IdleDir

Next ==
    \/ Collect
    \/ WalkRoot
    \/ \E i \in 1..Len(results) : Task(i)
    \/ Consume
    \/ Finish

Spec == Init /\ [][Next]_vars

(***************************************************************************)
(* Claims on the driver.  What a run should do is stated from the          *)
(* filesystem and the arguments, not from the results the tasks computed.  *)
(***************************************************************************)
Done == pc = "done"

\* The requested mode does not fit the path: content mode on a directory,
\* structure mode on something that is not one.
Mismatch(p) ==
    /\ fs[p] # "missing"
    /\ IF mode = "file" THEN fs[p] \in {"dir", "lockeddir"}
       ELSE fs[p] \in {"file", "lockedfile", "symfile"}

\* An I/O failure that is no type mismatch: the path does not exist, or
\* permission is denied on what the mode has to open.
Fatal(p) ==
    \/ fs[p] = "missing"
    \/ mode = "file" /\ fs[p] = "lockedfile"
    \/ mode = "dir" /\ fs[p] = "lockeddir"

Countable(p) == ~Mismatch(p) /\ ~Fatal(p)

\* p is r or lies below r, every directory between them readable.
RECURSIVE Below(_, _)
Below(p, r) ==
    \/ p = r
    \/ Parent[p] # 0 /\ fs[Parent[p]] = "dir" /\ Below(Parent[p], r)

\* The paths a recursive run on root r is to count.
Targets(r) == {p \in Paths : Below(p, r) /\ Countable(p)}

RECURSIVE TargetsUpTo(_)
TargetsUpTo(n) ==
    IF n = 0 THEN 0 ELSE TargetsUpTo(n - 1) + Cardinality(Targets(entries[n]))

\* The entries a run that returns Ok has counted.
Counted ==
    IF recursive THEN TargetsUpTo(Len(entries))
    ELSE Cardinality({i \in 1..Len(entries) : Countable(entries[i])})

TotalPrinted == \E i \in 1..Len(out) : out[i].ev = "total"

ReportPaths == LET r == SelectSeq(out, LAMBDA e : e.ev = "report")
               IN [i \in 1..Len(r) |-> r[i].path]

FirstFatal ==
    LET bad == {i \in 1..Len(entries) : Fatal(entries[i])}
    IN IF bad = {} THEN Len(entries) + 1 ELSE CHOOSE i \in bad : \A j \in bad : i <= j

\* What a flat run prints for its first n entries.
RECURSIVE FlatLines(_)
FlatLines(n) ==
    IF n = 0 THEN <<>>
    ELSE FlatLines(n - 1) \o
         (IF Mismatch(entries[n]) THEN << <<"warn", entries[n]>> >>
          ELSE IF quiet THEN <<>>
          ELSE << <<"report", entries[n]>> >>)

EntryLines == LET l == SelectSeq(out, LAMBDA e : e.ev # "total")
              IN [i \in 1..Len(l) |-> <<l[i].ev, l[i].path>>]

C7_FatalInputAborts ==
    (Done /\ \E i \in 1..Len(entries) : Fatal(entries[i])) =>
        /\ ret = "Err"
        /\ ~TotalPrinted

\* The regular files of the tree under r.
RegularFiles(r) == {p \in Paths : Below(p, r) /\ fs[p] \in {"file", "lockedfile"}}

OneDirRoot == Len(entries) = 1 /\ fs[entries[1]] = "dir"

NoDuplicates(s) == \A i, j \in 1..Len(s) : s[i] = s[j] => i = j

\* C8 as claimed: in content mode (per-entry lines not silenced) a recursive
\* run on a root directory prints exactly one report line per regular file of
\* the tree, and a flat run on the same root prints none.
C8_OneReportPerRegularFile ==
    (Done /\ mode = "file" /\ ~quiet /\ OneDirRoot) =>
        /\ recursive =>
              /\ NoDuplicates(ReportPaths)
              /\ {ReportPaths[i] : i \in 1..Len(ReportPaths)} = RegularFiles(entries[1])
        /\ ~recursive => ReportPaths = <<>>

\* C8 as amended: a recursive run that returns Ok prints exactly one report
\* line per path of the tree that is a regular file or a symlink to one (all
\* of them readable, or the run had ended in Err); a flat run prints no
\* report line, only the warning for the root.
C8_OneReportPerWalkedFile ==
    (Done /\ mode = "file" /\ ~quiet /\ OneDirRoot) =>
        /\ (recursive /\ ret = "Ok") =>
              /\ NoDuplicates(ReportPaths)
              /\ {ReportPaths[i] : i \in 1..Len(ReportPaths)}
                    = {p \in Paths : Below(p, entries[1]) /\ fs[p] \in {"file", "symfile"}}
              /\ RegularFiles(entries[1]) \subseteq {ReportPaths[i] : i \in 1..Len(ReportPaths)}
        /\ (recursive /\ ret = "Err") =>
              \E p \in RegularFiles(entries[1]) : fs[p] = "lockedfile"
        /\ ~recursive =>
              /\ ret = "Ok"
              /\ ReportPaths = <<>>
              /\ EntryLines = << <<"warn", entries[1]>> >>

\* A recursive run on root 1 reported the regular file at depth 1 and the one
\* at depth 2.
C8_Witness ==
    /\ Done /\ ret = "Ok"
    /\ mode = "file" /\ recursive /\ ~quiet
    /\ entries = <<1>>
    /\ fs = <<"dir", "file", "dir", "file">>
    /\ ReportPaths = <<2, 4>>

\* C10: a quiet run that returns Ok prints no per-entry report line and
\* prints the aggregate of the entries it counted, also when it counted
\* exactly one.
C10_QuietPrintsAggregate ==
    (Done /\ ret = "Ok" /\ quiet /\ Counted >= 1) =>
        /\ ReportPaths = <<>>
        /\ out # <<>>
        /\ out[Len(out)] = TotalLine(total)

(***************************************************************************)
(* Claims on the driver's accumulation and the order of its output         *)
(***************************************************************************)
\* The list of batch r: the entries as given (flat), or what the walk of
\* entry r yields of the mode's type (recursive).
BatchOf(r) == IF recursive THEN FilterKind(fs, mode, Walk(fs, entries[r])) ELSE entries

\* The stat of path p, as its task computes it.
StatOf(p) == IF mode = "file" THEN FileCount(fs, p).stat ELSE DirCount(fs, p).stat

\* The paths among the first n of list that are counted, in list order.
RECURSIVE CountedOf(_, _)
CountedOf(list, n) ==
    IF n = 0 THEN <<>>
    ELSE CountedOf(list, n - 1) \o (IF Countable(list[n]) THEN <<list[n]>> ELSE <<>>)

\* The lines the first n paths of list give, in list order.
RECURSIVE LinesOf(_, _)
LinesOf(list, n) ==
    IF n = 0 THEN <<>>
    ELSE LinesOf(list, n - 1) \o
         (IF Mismatch(list[n]) THEN << <<"warn", list[n]>> >>
          ELSE IF Countable(list[n]) /\ ~quiet THEN << <<"report", list[n]>> >>
          ELSE <<>>)

\* The batches before the current one, whole.
RECURSIVE CountedBefore(_)
CountedBefore(r) ==
    IF r <= 1 THEN <<>>
    ELSE CountedBefore(r - 1) \o CountedOf(BatchOf(r - 1), Len(BatchOf(r - 1)))

RECURSIVE LinesBefore(_)
LinesBefore(r) ==
    IF r <= 1 THEN <<>>
    ELSE LinesBefore(r - 1) \o LinesOf(BatchOf(r - 1), Len(BatchOf(r - 1)))

\* The number of the current batch, 0 before the first.
Current == IF pc = "start" THEN 0 ELSE IF recursive THEN root ELSE 1

\* The entries folded so far, and the lines due so far: all of the earlier
\* batches, and of the current batch what the result loop has consumed.
FoldedSoFar ==
    IF Current = 0 THEN <<>>
    ELSE CountedBefore(Current) \o CountedOf(BatchOf(Current), idx)

LinesSoFar ==
    IF Current = 0 THEN <<>>
    ELSE LinesBefore(Current) \o LinesOf(BatchOf(Current), idx)

\* The sum of field f over a sequence of stats.
RECURSIVE SumField(_, _)
SumField(stats, f) ==
    IF stats = <<>> THEN 0 ELSE Head(stats)[f] + SumField(Tail(stats), f)

\* C14: at every point of a run, in whatever order the tasks completed,
\* done is the number of entries folded so far and every field of the Total
\* is the sum of that field over exactly those entries; a run that returns Ok
\* has folded every countable entry of every batch once.
C14_NoLostUpdate ==
    (pc \in {"start", "run", "done"}) =>
        /\ LET folded == FoldedSoFar
               stats == [i \in 1..Len(folded) |-> StatOf(folded[i])]
           IN  /\ total.done = Len(folded)
               /\ IF mode = "file"
                  THEN /\ \A f \in {"lines", "words", "chars", "bytes"} :
                               total.file[f] = SumField(stats, f)
                       /\ total.dir = DirStatDefault
                  ELSE /\ \A f \in DirFields : total.dir[f] = SumField(stats, f)
                       /\ total.file = FileStatDefault
        /\ (Done /\ ret = "Ok") =>
              /\ total.done = Counted
              /\ recursive => \A r \in 1..Len(entries) :
                    /\ NoDuplicates(BatchOf(r))
                    /\ {BatchOf(r)[i] : i \in 1..Len(BatchOf(r))} = Targets(entries[r])

\* A recursive run is in its second batch: two files of the first root and
\* one of the second are folded, one more is to come.
C14_Witness ==
    /\ pc = "run"
    /\ recursive /\ mode = "file"
    /\ root = 2
    /\ Len(batch) = 2
    /\ idx = 1
    /\ total.done = 3
    /\ total.file.bytes > 0

\* C15: the report lines and warnings come out in the order of the batch's
\* list, each batch after the one before it, whichever tasks have completed:
\* at every point the per-entry lines printed are those of the entries
\* consumed so far, in list order; a total line is the last line of the run.
C15_OutputInListOrder ==
    (pc \in {"start", "run", "done"}) =>
        /\ EntryLines = LinesSoFar
        /\ pc = "run" => batch = BatchOf(Current)
        /\ \A i \in 1..Len(out) : out[i].ev = "total" => (Done /\ i = Len(out))

\* A recursive run printed the file of its first root, then the two files
\* of its second root, then the total.
C15_Witness ==
    /\ Done /\ ret = "Ok"
    /\ recursive /\ ~quiet /\ mode = "file"
    /\ entries = <<3, 1>>
    /\ ReportPaths = <<4, 2, 4>>
    /\ Len(out) = 4
    /\ out[4].ev = "total"

====
